---- MODULE Spec2Model ----
(***************************************************************************)
(* HR Knowledge Assistant: the ingestion and query pipeline of             *)
(* backend/app (main.py, services/vector_store.py, services/qa_service.py, *)
(* services/document_processor.py) as a state machine.                     *)
(*                                                                         *)
(* Text is a sequence of one-character strings, so that lower-casing and   *)
(* substring tests are computed as Python computes them.  Relevance,       *)
(* distance and confidence are integers in hundredths (0.8 is 80).         *)
(***************************************************************************)
EXTENDS Integers, Sequences, FiniteSets, TLC

VARIABLES
    collection,     \* the ChromaDB collection "hr_documents": stored chunks, in insertion order
    now,            \* datetime.now().timestamp(), as a counter
    returned,       \* document ids returned by successful uploads
    deleted,        \* returned document ids for which delete_document has returned
    last,           \* the outcome of the latest request
    catFilename,    \* categorizer input: the filename
    catText,        \* categorizer input: the document text or the query
    docCategory,    \* result of _categorize_document, "none" before the call
    queryCategory,  \* result of _categorize_query, "none" before the call
    processed,      \* the process_document calls made so far, with their results
    tasks           \* the upload requests in flight, by task

storeVars == <<collection, now, returned, deleted, last>>
catVars == <<catFilename, catText, docCategory, queryCategory>>
procVars == <<processed, tasks>>
vars == <<collection, now, returned, deleted, last,
          catFilename, catText, docCategory, queryCategory,
          processed, tasks>>

\* the two upload requests of the concurrent runs
Tasks == {"A", "B"}
NoTasks == [t \in Tasks |-> [pc |-> "idle"]]

(***************************************************************************)
(* Bounds of the model.                                                    *)
(***************************************************************************)
MaxUploads == 2
MaxIndexed == 2
MaxWords == 2
MaxProcessed == 2

(***************************************************************************)
(* Strings.                                                                *)
(***************************************************************************)
UpperCase ==
    <<"A","B","C","D","E","F","G","H","I","J","K","L","M",
      "N","O","P","Q","R","S","T","U","V","W","X","Y","Z">>
LowerCase ==
    <<"a","b","c","d","e","f","g","h","i","j","k","l","m",
      "n","o","p","q","r","s","t","u","v","w","x","y","z">>

\* str.lower() on one character
LowerChar(c) ==
    IF \E i \in 1..Len(UpperCase) : UpperCase[i] = c
    THEN LowerCase[CHOOSE i \in 1..Len(UpperCase) : UpperCase[i] = c]
    ELSE c

\* str.lower()
RECURSIVE Lower(_)
Lower(s) ==
    IF Len(s) = 0 THEN <<>>
    ELSE IF Len(s) = 1 THEN <<LowerChar(s[1])>>
    ELSE LET half == Len(s) \div 2
         IN  Lower(SubSeq(s, 1, half)) \o Lower(SubSeq(s, half + 1, Len(s)))

\* Python's `sub in s`
Contains(sub, s) ==
    \E i \in 0..(Len(s) - Len(sub)) : SubSeq(s, i + 1, i + Len(sub)) = sub

(***************************************************************************)
(* The categorizers: DocumentProcessor._categorize_document and            *)
(* QAService._categorize_query.  A dict iterates in insertion order.       *)
(***************************************************************************)
DocumentCategories ==
    << [category |-> "benefits", keywords |-> <<
        <<"b","e","n","e","f","i","t">>,
        <<"i","n","s","u","r","a","n","c","e">>,
        <<"h","e","a","l","t","h">>,
        <<"d","e","n","t","a","l">>,
        <<"v","i","s","i","o","n">>,
        <<"4","0","1","k">>,
        <<"r","e","t","i","r","e","m","e","n","t">> >>],
       [category |-> "leave-policies", keywords |-> <<
        <<"l","e","a","v","e">>,
        <<"v","a","c","a","t","i","o","n">>,
        <<"p","t","o">>,
        <<"s","i","c","k">>,
        <<"m","a","t","e","r","n","i","t","y">>,
        <<"p","a","t","e","r","n","i","t","y">>,
        <<"f","m","l","a">> >>],
       [category |-> "work-policies", keywords |-> <<
        <<"r","e","m","o","t","e">>,
        <<"w","o","r","k"," ","f","r","o","m"," ","h","o","m","e">>,
        <<"w","f","h">>,
        <<"f","l","e","x","i","b","l","e">>,
        <<"s","c","h","e","d","u","l","e">>,
        <<"a","t","t","e","n","d","a","n","c","e">> >>],
       [category |-> "performance", keywords |-> <<
        <<"p","e","r","f","o","r","m","a","n","c","e">>,
        <<"r","e","v","i","e","w">>,
        <<"e","v","a","l","u","a","t","i","o","n">>,
        <<"a","p","p","r","a","i","s","a","l">>,
        <<"f","e","e","d","b","a","c","k">>,
        <<"g","o","a","l","s">> >>],
       [category |-> "conduct", keywords |-> <<
        <<"c","o","n","d","u","c","t">>,
        <<"b","e","h","a","v","i","o","r">>,
        <<"h","a","r","a","s","s","m","e","n","t">>,
        <<"d","i","s","c","r","i","m","i","n","a","t","i","o","n">>,
        <<"e","t","h","i","c","s">>,
        <<"c","o","m","p","l","i","a","n","c","e">> >>],
       [category |-> "compensation", keywords |-> <<
        <<"s","a","l","a","r","y">>,
        <<"w","a","g","e">>,
        <<"p","a","y">>,
        <<"c","o","m","p","e","n","s","a","t","i","o","n">>,
        <<"b","o","n","u","s">>,
        <<"r","a","i","s","e">>,
        <<"p","r","o","m","o","t","i","o","n">> >>] >>

QueryCategories ==
    << [category |-> "benefits", keywords |-> <<
        <<"b","e","n","e","f","i","t">>,
        <<"i","n","s","u","r","a","n","c","e">>,
        <<"h","e","a","l","t","h">>,
        <<"d","e","n","t","a","l">>,
        <<"v","i","s","i","o","n">>,
        <<"4","0","1","k">>,
        <<"r","e","t","i","r","e","m","e","n","t">> >>],
       [category |-> "leave-policies", keywords |-> <<
        <<"l","e","a","v","e">>,
        <<"v","a","c","a","t","i","o","n">>,
        <<"p","t","o">>,
        <<"s","i","c","k">>,
        <<"m","a","t","e","r","n","i","t","y">>,
        <<"p","a","t","e","r","n","i","t","y">>,
        <<"t","i","m","e"," ","o","f","f">> >>],
       [category |-> "work-policies", keywords |-> <<
        <<"r","e","m","o","t","e">>,
        <<"w","o","r","k"," ","f","r","o","m"," ","h","o","m","e">>,
        <<"w","f","h">>,
        <<"f","l","e","x","i","b","l","e">>,
        <<"s","c","h","e","d","u","l","e">>,
        <<"a","t","t","e","n","d","a","n","c","e">> >>],
       [category |-> "performance", keywords |-> <<
        <<"p","e","r","f","o","r","m","a","n","c","e">>,
        <<"r","e","v","i","e","w">>,
        <<"e","v","a","l","u","a","t","i","o","n">>,
        <<"a","p","p","r","a","i","s","a","l">>,
        <<"f","e","e","d","b","a","c","k">>,
        <<"g","o","a","l","s">> >>],
       [category |-> "conduct", keywords |-> <<
        <<"c","o","n","d","u","c","t">>,
        <<"b","e","h","a","v","i","o","r">>,
        <<"h","a","r","a","s","s","m","e","n","t">>,
        <<"d","i","s","c","r","i","m","i","n","a","t","i","o","n">>,
        <<"e","t","h","i","c","s">>,
        <<"r","e","p","o","r","t">> >>],
       [category |-> "compensation", keywords |-> <<
        <<"s","a","l","a","r","y">>,
        <<"w","a","g","e">>,
        <<"p","a","y">>,
        <<"c","o","m","p","e","n","s","a","t","i","o","n">>,
        <<"b","o","n","u","s">>,
        <<"r","a","i","s","e">>,
        <<"p","r","o","m","o","t","i","o","n">> >>] >>


GENERAL == "general"
Categories ==
    {DocumentCategories[i].category : i \in 1..Len(DocumentCategories)} \cup {GENERAL}

\* any(keyword in s for keyword in keywords)
AnyKeywordIn(keywords, s) ==
    \E j \in 1..Len(keywords) : Contains(keywords[j], s)

\* sum(1 for keyword in keywords if keyword in s), from the j-th keyword on
RECURSIVE KeywordCountFrom(_, _, _)
KeywordCountFrom(keywords, s, j) ==
    IF j > Len(keywords) THEN 0
    ELSE (IF Contains(keywords[j], s) THEN 1 ELSE 0)
         + KeywordCountFrom(keywords, s, j + 1)

\* number of (possibly overlapping) places where sub occurs in s
Occurrences(sub, s) ==
    Cardinality({i \in 0..(Len(s) - Len(sub)) : SubSeq(s, i + 1, i + Len(sub)) = sub})

\* a categorizer that counts every occurrence of every keyword
RECURSIVE OccurrenceCountFrom(_, _, _)
OccurrenceCountFrom(keywords, s, j) ==
    IF j > Len(keywords) THEN 0
    ELSE Occurrences(keywords[j], s) + OccurrenceCountFrom(keywords, s, j + 1)

KeywordCountRepeated(keywords, s) == OccurrenceCountFrom(keywords, s, 1)

KeywordCount(keywords, s) == KeywordCountFrom(keywords, s, 1)

\* "if keyword_count >= 2"
KEYWORD_THRESHOLD == 2

\* the first loop of _categorize_document: the filename decides
RECURSIVE FilenameCategoryFrom(_, _)
FilenameCategoryFrom(filename_lower, i) ==
    IF i > Len(DocumentCategories) THEN "none"
    ELSE IF AnyKeywordIn(DocumentCategories[i].keywords, filename_lower)
         THEN DocumentCategories[i].category
         ELSE FilenameCategoryFrom(filename_lower, i + 1)

\* the second loop of _categorize_document: the content decides
RECURSIVE ContentCategoryFrom(_, _)
ContentCategoryFrom(text_lower, i) ==
    IF i > Len(DocumentCategories) THEN GENERAL
    ELSE IF KeywordCount(DocumentCategories[i].keywords, text_lower) >= KEYWORD_THRESHOLD
         THEN DocumentCategories[i].category
         ELSE ContentCategoryFrom(text_lower, i + 1)

_categorize_document(filename, text) ==
    LET filename_lower == Lower(filename)
        text_lower == Lower(text)
        byName == FilenameCategoryFrom(filename_lower, 1)
    IN  IF byName # "none" THEN byName ELSE ContentCategoryFrom(text_lower, 1)

RECURSIVE QueryCategoryFrom(_, _)
QueryCategoryFrom(query_lower, i) ==
    IF i > Len(QueryCategories) THEN GENERAL
    ELSE IF AnyKeywordIn(QueryCategories[i].keywords, query_lower)
         THEN QueryCategories[i].category
         ELSE QueryCategoryFrom(query_lower, i + 1)

_categorize_query(query) == QueryCategoryFrom(Lower(query), 1)

(***************************************************************************)
(* Inputs of the requests.                                                 *)
(***************************************************************************)
\* Optional[str] = None
NONE == "None"

\* uploaded file names; the second one names a leave-policies keyword
Filenames ==
    { <<"a",".","t","x","t">>,
      <<"P","T","O",".","t","x","t">> }

\* "\n\n", the coarsest separator of the text splitter
PARAGRAPH_BREAK == <<"\n","\n">>

\* Uploaded texts, each given as the runs of text the splitter emits as one
\* chunk each, in document order.
TextRepeat == << <<"4","0","1","k"," ","4","0","1","K">> >>
TextBenefits ==
    << <<"H","e","a","l","t","h"," ","d","e","n","t","a","l">>,
       <<"[","P","a","g","e"," ","2","]"," ","s","i","c","k"," ","p","a","y">> >>
TextShort == << <<"H","e","a","l","t","h"," ","d","e","n","t","a","l">> >>
Texts == {TextRepeat, TextBenefits, TextShort}

\* settings.UPLOAD_DIRECTORY and another value the environment may give it
UPLOAD_DIRECTORY == <<".","/","d","a","t","a","/","d","o","c","u","m","e","n","t","s">>
UploadDirectories == {UPLOAD_DIRECTORY, <<"/","s","r","v">>}

\* os.path.join(settings.UPLOAD_DIRECTORY, file.filename)
FilePath(directory, filename) == directory \o <<"/">> \o filename

\* Texts whose first chunk is longer than the part of it that the chunk id
\* reads: the same first 100 characters, then another one.
RECURSIVE Filler(_)
Filler(n) ==
    IF n = 0 THEN <<>>
    ELSE IF n = 1 THEN <<"x">>
    ELSE Filler(n \div 2) \o Filler(n - n \div 2)
TextLongA == << Filler(100) \o <<"a">> >>
TextLongB == << Filler(100) \o <<"b">>, <<"H","i">> >>
ChunkTexts == Texts \cup {TextLongA, TextLongB}

\* the readings of datetime.now() in the model
Max(a, b) == IF a > b THEN a ELSE b
Dates == 1..(Max(Max(MaxUploads, MaxIndexed), MaxProcessed) + 1)

Queries ==
    { <<"4","0","1","k"," ","m","a","t","c","h">>,
      <<"h","e","l","l","o">> }

\* QueryRequest.top_k: <<>> is None, <<n>> is the integer n
TopKInputs == { <<>>, <<-1>>, <<0>>, <<1>>, <<2>> }

\* QueryRequest.category_filter
FilterInputs == {NONE, "benefits"}

\* distances the similarity backend may report, in hundredths
Distances == {0, 10, 150}

(***************************************************************************)
(* DocumentProcessor: process_document and _create_chunks.                 *)
(***************************************************************************)
\* the text of the file: its runs joined by paragraph breaks
RECURSIVE FileText(_)
FileText(runs) ==
    IF Len(runs) = 0 THEN <<>>
    ELSE IF Len(runs) = 1 THEN runs[1]
    ELSE runs[1] \o PARAGRAPH_BREAK \o FileText(Tail(runs))

\* chunk.page_content[:100]
CHUNK_ID_PREFIX == 100

Prefix(s, n) == IF Len(s) > n THEN SubSeq(s, 1, n) ELSE s

\* a chunk id over the whole content of the chunk
ChunkIdOfContent(filename, i, content) == <<filename, i, content>>

\* hashlib.md5(f"{filename}_{i}_{content[:100]}").hexdigest(), taken as
\* collision free; i is the 0-based index
ChunkId(filename, i, content) == <<filename, i, Prefix(content, CHUNK_ID_PREFIX)>>

\* _create_chunks: one DocumentChunk per run the splitter returns
_create_chunks(runs, metadata) ==
    [i \in 1..Len(runs) |->
        [content |-> runs[i],
         chunk_id |-> ChunkId(metadata.filename, i - 1, runs[i]),
         metadata |-> [filename |-> metadata.filename,
                       file_path |-> metadata.file_path,
                       processed_date |-> metadata.processed_date,
                       file_size |-> metadata.file_size,
                       category |-> metadata.category,
                       chunk_index |-> i - 1,
                       document_id |-> <<>>]]]

\* process_document: metadata of the file, then its chunks
process_document(file_path, filename, runs, processed_date) ==
    LET text == FileText(runs)
        metadata == [filename |-> filename,
                     file_path |-> file_path,
                     processed_date |-> processed_date,
                     file_size |-> Len(text),
                     category |-> _categorize_document(filename, text)]
    IN  _create_chunks(runs, metadata)

(***************************************************************************)
(* VectorStore.                                                            *)
(***************************************************************************)
\* f"doc_{hash(filename)}_{datetime.now().timestamp()}"
DocumentId(filename, timestamp) == <<filename, timestamp>>

\* f"doc_{hash(filename)}"
FilenameDocumentId(filename) == <<filename>>

StoredIds(coll) == {coll[i].chunk_id : i \in 1..Len(coll)}

\* a collection.add that, for an id already stored, takes over the new
\* document_id and keeps the rest of the stored record
RECURSIVE CollectionAddRestamp(_, _)
CollectionAddRestamp(coll, batch) ==
    IF batch = <<>> THEN coll
    ELSE CollectionAddRestamp(
             IF Head(batch).chunk_id \in StoredIds(coll)
             THEN [i \in 1..Len(coll) |->
                      IF coll[i].chunk_id = Head(batch).chunk_id
                      THEN [coll[i] EXCEPT !.metadata.document_id =
                                               Head(batch).metadata.document_id]
                      ELSE coll[i]]
             ELSE Append(coll, Head(batch)),
             Tail(batch))

\* collection.add of chromadb 0.4: a record whose id is already stored is
\* logged and ignored; the stored record stays as it is
RECURSIVE CollectionAdd(_, _)
CollectionAdd(coll, batch) ==
    IF batch = <<>> THEN coll
    ELSE CollectionAdd(IF Head(batch).chunk_id \in StoredIds(coll)
                       THEN coll
                       ELSE Append(coll, Head(batch)),
                       Tail(batch))

\* add_document: stamps every chunk with the document metadata and adds the
\* batch; storeOk = FALSE is the store raising
add_document(coll, chunks, filename, file_size, timestamp, storeOk) ==
    LET document_id == DocumentId(filename, timestamp)
        batch == [i \in 1..Len(chunks) |->
                    [chunks[i] EXCEPT !.metadata =
                        [@ EXCEPT !.document_id = document_id,
                                  !.filename = filename,
                                  !.file_size = file_size]]]
    IN  IF storeOk
        THEN [ok |-> TRUE, document_id |-> document_id, batch |-> batch,
              collection |-> CollectionAdd(coll, batch)]
        ELSE [ok |-> FALSE, document_id |-> document_id, batch |-> batch,
              collection |-> coll]

\* the k nearest of the candidates, by increasing distance, the first stored
\* first among equals
RECURSIVE Nearest(_, _, _)
Nearest(candidates, dist, k) ==
    IF k = 0 \/ candidates = {} THEN <<>>
    ELSE LET best == CHOOSE i \in candidates :
                        \A j \in candidates :
                            dist[i] < dist[j] \/ (dist[i] = dist[j] /\ i <= j)
         IN  <<best>> \o Nearest(candidates \ {best}, dist, k - 1)

\* search: collection.query with the where clause, then the result records.
\* n_results below 1 is rejected by the backend.
search(coll, top_k, category_filter, storeOk, dist) ==
    IF ~storeOk \/ top_k <= 0
    THEN [ok |-> FALSE, results |-> <<>>]
    ELSE LET candidates ==
                 {i \in 1..Len(coll) :
                     category_filter = NONE
                     \/ coll[i].metadata.category = category_filter}
             hits == Nearest(candidates, dist, top_k)
         IN  [ok |-> TRUE,
              results |-> [n \in 1..Len(hits) |->
                              [content |-> coll[hits[n]].content,
                               metadata |-> coll[hits[n]].metadata,
                               relevance |-> 100 - dist[hits[n]],
                               id |-> coll[hits[n]].chunk_id]]]

\* list_documents: one summary per document_id, in first-seen order, with
\* the number of chunks carrying it
RECURSIVE ListFrom(_, _, _)
ListFrom(coll, i, summaries) ==
    IF i > Len(coll) THEN summaries
    ELSE LET metadata == coll[i].metadata
             seen == {n \in 1..Len(summaries) : summaries[n].id = metadata.document_id}
         IN  IF metadata.filename = <<>> \/ metadata.document_id = <<>>
             THEN ListFrom(coll, i + 1, summaries)
             ELSE IF seen = {}
             THEN ListFrom(coll, i + 1,
                      Append(summaries,
                          [id |-> metadata.document_id,
                           name |-> metadata.filename,
                           size |-> metadata.file_size,
                           category |-> metadata.category,
                           chunks |-> 1]))
             ELSE ListFrom(coll, i + 1,
                      [n \in 1..Len(summaries) |->
                          IF n \in seen
                          THEN [summaries[n] EXCEPT !.chunks = @ + 1]
                          ELSE summaries[n]])

\* a list_documents that groups by filename
list_documents_by_filename(coll) ==
    ListFrom([i \in 1..Len(coll) |->
                 [coll[i] EXCEPT !.metadata.document_id =
                                     FilenameDocumentId(coll[i].metadata.filename)]],
             1, <<>>)

list_documents(coll) == ListFrom(coll, 1, <<>>)

\* SelectSeq with the test written out
RECURSIVE Keep(_, _)
Keep(coll, drop) ==
    IF coll = <<>> THEN <<>>
    ELSE IF Head(coll).chunk_id \in drop THEN Keep(Tail(coll), drop)
    ELSE <<Head(coll)>> \o Keep(Tail(coll), drop)

\* a delete_document that matches the document_id stored in the metadata
delete_document_by_stored_id(coll, document_id) ==
    Keep(coll, {coll[i].chunk_id : i \in
                   {n \in 1..Len(coll) : coll[n].metadata.document_id = document_id}})

\* delete_document: the chunks whose f"doc_{hash(filename)}" equals the
\* argument are deleted by id
delete_document(coll, document_id) ==
    LET chunk_ids_to_delete ==
            {coll[i].chunk_id : i \in
                {n \in 1..Len(coll) :
                    FilenameDocumentId(coll[n].metadata.filename) = document_id}}
    IN  Keep(coll, chunk_ids_to_delete)

(***************************************************************************)
(* QAService.                                                              *)
(***************************************************************************)
\* search_results[:n]
Take(s, n) == IF Len(s) > n THEN SubSeq(s, 1, n) ELSE s

RECURSIVE SumRelevance(_)
SumRelevance(results) ==
    IF results = <<>> THEN 0
    ELSE Head(results).relevance + SumRelevance(Tail(results))

\* round(x, 2) of x = num / den hundredths, den > 0: to the nearest hundredth,
\* an exact half to the even one (the binary representation error of a float
\* is left out)
Round(num, den) ==
    LET q == num \div den
        r == num - q * den
    IN  IF 2 * r < den THEN q
        ELSE IF 2 * r > den THEN q + 1
        ELSE IF q % 2 = 0 THEN q ELSE q + 1

\* search_results[:3] in _calculate_confidence and _prepare_sources
TOP_RESULTS == 3
\* r['relevance'] > 0.8
HIGH_RELEVANCE == 80
\* at least 2 such results
HIGH_COUNT == 2
\* 1.0
FULL_CONFIDENCE == 100

\* a _calculate_confidence over all the results
_calculate_confidence_all(search_results) ==
    IF search_results = <<>> THEN 0
    ELSE LET n == Len(search_results)
             total == SumRelevance(search_results)
             high == Cardinality({i \in 1..n : search_results[i].relevance > HIGH_RELEVANCE})
         IN  IF high >= HIGH_COUNT
             THEN IF 11 * total >= FULL_CONFIDENCE * 10 * n
                  THEN FULL_CONFIDENCE
                  ELSE Round(11 * total, 10 * n)
             ELSE Round(total, n)

\* _calculate_confidence: the mean of the top 3, times 1.1 and capped at 1.0
\* when 2 of them are above 0.8
_calculate_confidence(search_results) ==
    IF search_results = <<>> THEN 0
    ELSE LET top_results == Take(search_results, TOP_RESULTS)
             n == Len(top_results)
             total == SumRelevance(top_results)
             high == Cardinality({i \in 1..n : top_results[i].relevance > HIGH_RELEVANCE})
         IN  IF high >= HIGH_COUNT
             THEN IF 11 * total >= FULL_CONFIDENCE * 10 * n
                  THEN FULL_CONFIDENCE
                  ELSE Round(11 * total, 10 * n)
             ELSE Round(total, n)

\* str.find(sub, start): the 0-based index of the first occurrence at or after
\* start, -1 when there is none
Find(s, sub, start) ==
    LET at == {i \in start..(Len(s) - Len(sub)) : SubSeq(s, i + 1, i + Len(sub)) = sub}
    IN  IF at = {} THEN -1 ELSE CHOOSE i \in at : \A j \in at : i <= j

Digits == <<"0","1","2","3","4","5","6","7","8","9">>

DigitValue(c) == (CHOOSE i \in 1..Len(Digits) : Digits[i] = c) - 1

RECURSIVE DecimalValue(_)
DecimalValue(s) ==
    IF s = <<>> THEN 0
    ELSE 10 * DecimalValue(SubSeq(s, 1, Len(s) - 1)) + DigitValue(s[Len(s)])

\* content[a:b] with a >= 0 and b >= -1
Slice(s, a, b) ==
    LET stop == IF b < 0 THEN Len(s) + b ELSE b
    IN  IF stop <= a THEN <<>> ELSE SubSeq(s, a + 1, stop)

PAGE_MARK == <<"[","P","a","g","e"," ">>
PAGE_END == <<"]">>

\* the page number of _prepare_sources: <<n>>, or <<>> for None.  int() is
\* taken on a run of decimal digits; any other slice fails and leaves None.
PageNumber(content) ==
    IF ~Contains(PAGE_MARK, content) THEN <<>>
    ELSE LET page_start == Find(content, PAGE_MARK, 0) + Len(PAGE_MARK)
             page_end == Find(content, PAGE_END, page_start)
             digits == Slice(content, page_start, page_end)
         IN  IF digits # <<>>
                /\ \A i \in 1..Len(digits) : \E d \in 1..Len(Digits) : Digits[d] = digits[i]
             THEN <<DecimalValue(digits)>>
             ELSE <<>>

\* content[:200] + "..." if len(content) > 200 else content
SOURCE_CONTENT == 200
ELLIPSIS == <<".",".",".">>

Shorten(content) ==
    IF Len(content) > SOURCE_CONTENT
    THEN SubSeq(content, 1, SOURCE_CONTENT) \o ELLIPSIS
    ELSE content

\* _prepare_sources: a SourceDocument for each of the top 3 results
_prepare_sources(search_results) ==
    LET top == Take(search_results, TOP_RESULTS)
    IN  [i \in 1..Len(top) |->
            [document |-> top[i].metadata.filename,
             page |-> PageNumber(top[i].content),
             relevance |-> top[i].relevance,
             content |-> Shorten(top[i].content)]]

\* _generate_answer: the model's text, or the apology of its except branch.
\* The prompt, built from _prepare_context, is an input of the capability only.
_generate_answer(genOk) ==
    IF genOk THEN "generated answer" ELSE "error generating the response"

\* the three responses answer_query builds
NotFoundResponse ==
    [answer |-> "couldn't find relevant information", sources |-> <<>>,
     category |-> "unknown", confidence |-> 0]

ErrorResponse ==
    [answer |-> "error while processing your question", sources |-> <<>>,
     category |-> "error", confidence |-> 0]

\* _categorize_query on every query of the model
QueryCategory == [q \in Queries |-> _categorize_query(q)]

AnswerResponse(query, search_results, genOk) ==
    [answer |-> _generate_answer(genOk),
     sources |-> _prepare_sources(search_results),
     category |-> QueryCategory[query],
     confidence |-> _calculate_confidence(search_results)]

\* answer_query with the except branch left out: a failed search is read as
\* a search without results
answer_query_uncaught(coll, query, top_k, storeOk, dist, genOk) ==
    LET found == search(coll, top_k, NONE, storeOk, dist)
        trace == [store_top_k |-> top_k, store_filter |-> NONE,
                  search_ok |-> found.ok, results |-> found.results]
    IN  IF found.results = <<>>
        THEN [response |-> NotFoundResponse, generated |-> FALSE] @@ trace
        ELSE [response |-> AnswerResponse(query, found.results, genOk),
              generated |-> TRUE] @@ trace

\* answer_query without the "if not search_results" return
answer_query_no_shortcut(coll, query, top_k, storeOk, dist, genOk) ==
    LET found == search(coll, top_k, NONE, storeOk, dist)
        trace == [store_top_k |-> top_k, store_filter |-> NONE,
                  search_ok |-> found.ok, results |-> found.results]
    IN  IF ~found.ok
        THEN [response |-> ErrorResponse, generated |-> FALSE] @@ trace
        ELSE [response |-> AnswerResponse(query, found.results, genOk),
              generated |-> TRUE] @@ trace

\* answer_query: the response, with what the call did on the way: the top_k
\* and filter handed to the store, whether the search returned, the results
\* retrieved, whether the generation capability was invoked
answer_query(coll, query, top_k, storeOk, dist, genOk) ==
    LET found == search(coll, top_k, NONE, storeOk, dist)
        trace == [store_top_k |-> top_k, store_filter |-> NONE,
                  search_ok |-> found.ok, results |-> found.results]
    IN  IF ~found.ok
        THEN [response |-> ErrorResponse, generated |-> FALSE] @@ trace
        ELSE IF found.results = <<>>
        THEN [response |-> NotFoundResponse, generated |-> FALSE] @@ trace
        ELSE [response |-> AnswerResponse(query, found.results, genOk),
              generated |-> TRUE] @@ trace

\* settings of main.py: "request.top_k or 5"
DEFAULT_TOP_K == 5

\* query_documents: POST /query
query_documents(coll, request, storeOk, dist, genOk) ==
    LET top_k == IF request.top_k = <<>> \/ request.top_k[1] = 0
                 THEN DEFAULT_TOP_K
                 ELSE request.top_k[1]
    IN  answer_query(coll, request.query, top_k, storeOk, dist, genOk)

(***************************************************************************)
(* The requests of main.py that read or write the store, one action each.  *)
(* Whether the store raises is chosen by the environment.                  *)
(***************************************************************************)
\* process_document on every file of the model
Processed ==
    [directory \in UploadDirectories, filename \in Filenames,
     runs \in ChunkTexts, date \in Dates |->
        process_document(FilePath(directory, filename), filename, runs, date)]

\* POST /upload; the clock is read once per stored upload
upload_document ==
    /\ now <= MaxUploads
    /\ \E filename \in Filenames, runs \in Texts, storeOk \in BOOLEAN :
          LET chunks == Processed[UPLOAD_DIRECTORY, filename, runs, now]
              file_size == Len(FileText(runs))
              added == add_document(collection, chunks, filename, file_size, now, storeOk)
          IN  /\ collection' = added.collection
              /\ returned' = IF added.ok THEN returned \cup {added.document_id} ELSE returned
              /\ now' = IF added.ok THEN now + 1 ELSE now
              /\ last' = IF added.ok
                         THEN [op |-> "upload", ok |-> TRUE,
                               document_id |-> added.document_id,
                               chunks_created |-> Len(chunks),
                               batch |-> added.batch]
                         ELSE [op |-> "upload", ok |-> FALSE]
    /\ UNCHANGED deleted
    /\ UNCHANGED catVars
    /\ UNCHANGED procVars

\* GET /documents
documents ==
    /\ \E storeOk \in BOOLEAN :
          last' = IF storeOk
                  THEN [op |-> "documents", ok |-> TRUE,
                        documents |-> list_documents(collection)]
                  ELSE [op |-> "documents", ok |-> FALSE]
    /\ UNCHANGED <<collection, now, returned, deleted>>
    /\ UNCHANGED catVars
    /\ UNCHANGED procVars

\* the ids a caller can try to delete: those uploads returned, and the
\* filename-derived form delete_document compares with
DeleteArguments == returned \cup {FilenameDocumentId(f) : f \in Filenames}

\* DELETE /documents/{document_id}
delete ==
    /\ \E document_id \in DeleteArguments, storeOk \in BOOLEAN :
          /\ collection' = IF storeOk
                           THEN delete_document(collection, document_id)
                           ELSE collection
          /\ deleted' = IF storeOk THEN deleted \cup ({document_id} \cap returned) ELSE deleted
          /\ last' = [op |-> "delete", ok |-> storeOk, document_id |-> document_id]
    /\ UNCHANGED <<now, returned>>
    /\ UNCHANGED catVars
    /\ UNCHANGED procVars

Init ==
    /\ collection = <<>>
    /\ now = 1
    /\ returned = {}
    /\ deleted = {}
    /\ last = [op |-> "none"]
    /\ catFilename = <<>>
    /\ catText = <<>>
    /\ docCategory = "none"
    /\ queryCategory = "none"
    /\ processed = <<>>
    /\ tasks = NoTasks

Next ==
    \/ upload_document
    \/ documents
    \/ delete

Spec == Init /\ [][Next]_vars


(***************************************************************************)
(* POST /query against every index that uploads can build.  The store      *)
(* raising, the generation capability raising and the distances the        *)
(* backend reports are chosen by the environment.                          *)
(***************************************************************************)
\* the store after at most n uploads that returned
RECURSIVE IndexedStores(_)
IndexedStores(n) ==
    IF n = 0
    THEN {[collection |-> <<>>, now |-> 1, returned |-> {}]}
    ELSE LET before == IndexedStores(n - 1)
         IN  before \cup
             {LET added == add_document(s.collection, Processed[UPLOAD_DIRECTORY, f, runs, s.now], f,
                                        Len(FileText(runs)), s.now, TRUE)
              IN  [collection |-> added.collection, now |-> s.now + 1,
                   returned |-> s.returned \cup {added.document_id}] :
                 s \in before, f \in Filenames, runs \in Texts}

Stores == IndexedStores(MaxIndexed)

\* what the environment decides during one query
Environments(coll) ==
    [storeOk : {FALSE}, genOk : {TRUE}, dist : {[i \in 1..Len(coll) |-> 0]}]
    \cup [storeOk : {TRUE}, genOk : BOOLEAN, dist : [1..Len(coll) -> Distances]]

InitQuery ==
    /\ \E s \in Stores :
          /\ collection = s.collection
          /\ now = s.now
          /\ returned = s.returned
    /\ deleted = {}
    /\ last = [op |-> "none"]
    /\ catFilename = <<>>
    /\ catText = <<>>
    /\ docCategory = "none"
    /\ queryCategory = "none"
    /\ processed = <<>>
    /\ tasks = NoTasks

\* POST /query, once
query ==
    /\ last.op = "none"
    /\ \E q \in Queries, top_k \in TopKInputs, category_filter \in FilterInputs :
       \E env \in Environments(collection) :
          LET request == [query |-> q, top_k |-> top_k, category_filter |-> category_filter]
          IN  last' = [op |-> "query", request |-> request,
                       storeOk |-> env.storeOk, genOk |-> env.genOk]
                      @@ query_documents(collection, request, env.storeOk, env.dist, env.genOk)
    /\ UNCHANGED <<collection, now, returned, deleted>>
    /\ UNCHANGED catVars
    /\ UNCHANGED procVars

NextQuery == query

SpecQuery == InitQuery /\ [][NextQuery]_vars

(***************************************************************************)
(* The categorizers on their own: every text of at most MaxWords words of  *)
(* the vocabulary, under a filename with and without a keyword.            *)
(***************************************************************************)
Vocabulary ==
    << <<"4","0","1","k">>,
       <<"4","0","1","K">>,
       <<"H","e","a","l","t","h">>,
       <<"s","i","c","k">>,
       <<"r","e","p","a","y">>,
       <<"r","e","p","o","r","t">>,
       <<"f","m","l","a">>,
       <<"t","i","m","e">>,
       <<"o","f","f">>,
       <<"h","e","l","l","o">> >>

\* " ".join(words)
RECURSIVE JoinWords(_)
JoinWords(words) ==
    IF Len(words) = 0 THEN <<>>
    ELSE IF Len(words) = 1 THEN Vocabulary[words[1]]
    ELSE Vocabulary[words[1]] \o <<" ">> \o JoinWords(Tail(words))

CatTexts ==
    {JoinWords(words) :
        words \in UNION {[1..n -> 1..Len(Vocabulary)] : n \in 0..MaxWords}}

InitCat ==
    /\ collection = <<>>
    /\ now = 1
    /\ returned = {}
    /\ deleted = {}
    /\ last = [op |-> "none"]
    /\ catFilename \in Filenames
    /\ catText \in CatTexts
    /\ docCategory = "none"
    /\ queryCategory = "none"
    /\ processed = <<>>
    /\ tasks = NoTasks

\* process_document categorizes the file
CategorizeDocument ==
    /\ docCategory = "none"
    /\ docCategory' = _categorize_document(catFilename, catText)
    /\ UNCHANGED <<catFilename, catText, queryCategory>>
    /\ UNCHANGED storeVars
    /\ UNCHANGED procVars

\* answer_query categorizes the query
CategorizeQuery ==
    /\ queryCategory = "none"
    /\ queryCategory' = _categorize_query(catText)
    /\ UNCHANGED <<catFilename, catText, docCategory>>
    /\ UNCHANGED storeVars
    /\ UNCHANGED procVars

NextCat ==
    \/ CategorizeDocument
    \/ CategorizeQuery

SpecCat == InitCat /\ [][NextCat]_vars

(***************************************************************************)
(* The document processor alone: calls of process_document, each on a file *)
(* the upload handler has written, at successive times.                    *)
(***************************************************************************)
InitChunk == Init

\* process_document(file_path, filename)
ProcessDocument ==
    /\ Len(processed) < MaxProcessed
    /\ \E directory \in UploadDirectories, filename \in Filenames, runs \in ChunkTexts :
          processed' = Append(processed,
                           [file_path |-> FilePath(directory, filename),
                            filename |-> filename,
                            text |-> FileText(runs),
                            chunks |-> Processed[directory, filename, runs, now]])
    /\ now' = now + 1
    /\ UNCHANGED <<collection, returned, deleted, last, tasks>>
    /\ UNCHANGED catVars

NextChunk == ProcessDocument

SpecChunk == InitChunk /\ [][NextChunk]_vars

(***************************************************************************)
(* Two upload requests in flight on the one event loop of the server.  A   *)
(* coroutine gives way to another one only where it awaits something that  *)
(* suspends: in upload_document that is `await file.read()`.  What follows  *)
(* (writing the file, process_document, add_document and in it the one     *)
(* synchronous collection.add) awaits only coroutines that never suspend.  *)
(***************************************************************************)
\* a collection.add that gives way to other coroutines after every record
WrittenPerTurnOne(batch) == 1

\* the number of records of the batch that collection.add has written when
\* another coroutine can next run: all of them
WrittenPerTurn(batch) == Len(batch)

InitConc == Init

\* upload_document up to the return of `await file.read()`
upload_read(t) ==
    /\ tasks[t].pc = "idle"
    /\ \E filename \in Filenames, runs \in Texts :
          tasks' = [tasks EXCEPT ![t] = [pc |-> "read", filename |-> filename, runs |-> runs]]
    /\ UNCHANGED <<collection, now, returned, deleted, last, processed>>
    /\ UNCHANGED catVars

\* upload_document from there on, up to the next point where the event loop
\* can run another coroutine
upload_store(t) ==
    /\ tasks[t].pc \in {"read", "adding"}
    /\ \E storeOk \in BOOLEAN :
          LET task == tasks[t]
              begun == task.pc = "adding"
              chunks == Processed[UPLOAD_DIRECTORY, task.filename, task.runs, now]
              added == add_document(collection, chunks, task.filename,
                                    Len(FileText(task.runs)), now, storeOk)
              batch == IF begun THEN task.batch ELSE added.batch
              todo == IF begun THEN task.pending ELSE added.batch
              written == IF WrittenPerTurn(todo) < Len(todo)
                         THEN WrittenPerTurn(todo) ELSE Len(todo)
              pending == SubSeq(todo, written + 1, Len(todo))
              document_id == IF begun THEN task.document_id ELSE added.document_id
          IN  IF ~begun /\ ~added.ok
              THEN /\ tasks' = [tasks EXCEPT ![t] =
                                   [pc |-> "done", filename |-> task.filename,
                                    runs |-> task.runs, ok |-> FALSE]]
                   /\ last' = [op |-> "upload", ok |-> FALSE]
                   /\ UNCHANGED <<collection, now, returned>>
              ELSE /\ begun => storeOk
                   /\ collection' = CollectionAdd(collection, SubSeq(todo, 1, written))
                   /\ now' = IF begun THEN now ELSE now + 1
                   /\ IF pending = <<>>
                      THEN /\ tasks' = [tasks EXCEPT ![t] =
                                           [pc |-> "done", filename |-> task.filename,
                                            runs |-> task.runs, ok |-> TRUE,
                                            document_id |-> document_id]]
                           /\ returned' = returned \cup {document_id}
                           /\ last' = [op |-> "upload", ok |-> TRUE,
                                       document_id |-> document_id,
                                       chunks_created |-> Len(batch),
                                       batch |-> batch]
                      ELSE /\ tasks' = [tasks EXCEPT ![t] =
                                           [pc |-> "adding", filename |-> task.filename,
                                            runs |-> task.runs,
                                            batch |-> batch, pending |-> pending,
                                            document_id |-> document_id]]
                           /\ UNCHANGED <<returned, last>>
    /\ UNCHANGED <<deleted, processed>>
    /\ UNCHANGED catVars

NextConc == \E t \in Tasks : upload_read(t) \/ upload_store(t)

SpecConc == InitConc /\ [][NextConc]_vars

(***************************************************************************)
(* Claims C1 and C2: the index under uploads and deletes (Spec).           *)
(***************************************************************************)
ListedIds(coll) ==
    {list_documents(coll)[n].id : n \in 1..Len(list_documents(coll))}

\* every chunk a search can return: all of them, asked for without a filter
Retrievable(coll) ==
    search(coll, Len(coll) + 1, NONE, TRUE, [i \in 1..Len(coll) |-> 0]).results

\* C1: once delete_document(D) has returned for a document id D that an
\* upload returned, list_documents() has no summary with id D and search
\* returns no chunk whose metadata document_id is D.
C1_DeletionCompleteness ==
    \A D \in deleted :
        /\ D \notin ListedIds(collection)
        /\ \A n \in 1..Len(Retrievable(collection)) :
              Retrievable(collection)[n].metadata.document_id # D

StoredChunk(coll, chunk_id) ==
    coll[CHOOSE i \in 1..Len(coll) : coll[i].chunk_id = chunk_id]

\* C2: after add_document, what is stored under the id of each chunk of the
\* batch is the content and metadata of that chunk, also when the id was in
\* the index before; and adding the batch once more leaves the index as it is.
C2_UpsertOverwrites ==
    (last.op = "upload" /\ last.ok) =>
        /\ \A n \in 1..Len(last.batch) :
              /\ last.batch[n].chunk_id \in StoredIds(collection)
              /\ StoredChunk(collection, last.batch[n].chunk_id).content
                    = last.batch[n].content
              /\ StoredChunk(collection, last.batch[n].chunk_id).metadata
                    = last.batch[n].metadata
        /\ CollectionAdd(collection, last.batch) = collection

(***************************************************************************)
(* Claims C3 to C7 and C10: one query (SpecQuery).                         *)
(***************************************************************************)
Queried == last.op = "query"

\* C3: when the generation call fails during a query that retrieved at least
\* one result, the response has category "error", confidence 0.0, no
\* sources and an answer carrying an error description.
C3_GenerationFailureIsErrorResponse ==
    (Queried /\ last.results # <<>> /\ ~last.genOk) =>
        /\ last.response.category = "error"
        /\ last.response.confidence = 0
        /\ last.response.sources = <<>>
        /\ last.response.answer \in {ErrorResponse.answer, _generate_answer(FALSE)}

\* C4: when the store's search fails during a query, answer_query returns a
\* response with category "error", confidence 0.0 and no sources, and no
\* generation call is made.
C4_StoreFailureIsErrorResponse ==
    (Queried /\ ~last.storeOk) =>
        /\ DOMAIN last.response = {"answer", "sources", "category", "confidence"}
        /\ last.response.category = "error"
        /\ last.response.confidence = 0
        /\ last.response.sources = <<>>
        /\ ~last.generated

\* a query against a non-empty index during which the store raised
C4_Witness ==
    Queried /\ ~last.storeOk /\ collection # <<>>

\* C5: when retrieval yields zero results, as on an empty index, the response
\* is the fixed "could not find" answer with category "unknown", confidence
\* 0.0 and no sources, and the generation capability is not invoked.
C5_NoResultsShortCircuit ==
    (Queried /\ last.search_ok /\ last.results = <<>>) =>
        /\ last.response.answer = "couldn't find relevant information"
        /\ last.response.category = "unknown"
        /\ last.response.confidence = 0
        /\ last.response.sources = <<>>
        /\ ~last.generated

\* a query of the empty index whose search returned
C5_Witness ==
    Queried /\ last.search_ok /\ last.results = <<>> /\ collection = <<>>

\* C6: for every result set, 0.0 <= confidence <= 1.0, and the confidence of
\* an empty result set is 0.0.
C6_ConfidenceBounds ==
    Queried =>
        /\ 0 <= last.response.confidence
        /\ last.response.confidence <= 100
        /\ (last.results = <<>> => last.response.confidence = 0)

\* C7: for a query with a category_filter, every chunk retrieved for the
\* answer, and so every source of the response, has that category.
C7_FilterRestrictsResults ==
    (Queried /\ last.request.category_filter # NONE) =>
        /\ \A n \in 1..Len(last.results) :
              last.results[n].metadata.category = last.request.category_filter
        /\ Len(last.response.sources) <= Len(last.results)

\* C10: the top_k that reaches the store's search is 5 when the request gives
\* none and max(requested top_k, 1) otherwise.
C10_TopKDefaultedAndClamped ==
    Queried =>
        last.store_top_k =
            IF last.request.top_k = <<>> THEN 5
            ELSE IF last.request.top_k[1] < 1 THEN 1
            ELSE last.request.top_k[1]

(***************************************************************************)
(* Claims C8 and C9: the categorizers (SpecCat).                           *)
(***************************************************************************)
KeywordSet(entry) == {entry.keywords[j] : j \in 1..Len(entry.keywords)}

\* some keyword of some category is a substring of the lower-cased filename
FilenameHint(filename) ==
    \E i \in 1..Len(DocumentCategories) :
        \E k \in KeywordSet(DocumentCategories[i]) : Contains(k, Lower(filename))

\* how many different keywords of the category occur in the text
DistinctHits(entry, text) ==
    Cardinality({k \in KeywordSet(entry) : Contains(k, Lower(text))})

\* how many times keywords of the category occur in the text
RECURSIVE SumOccurrences(_, _)
SumOccurrences(keys, text) ==
    IF keys = {} THEN 0
    ELSE LET k == CHOOSE x \in keys : TRUE
         IN  Occurrences(k, Lower(text)) + SumOccurrences(keys \ {k}, text)

RepeatedHits(entry, text) == SumOccurrences(KeywordSet(entry), text)

\* the first category of the table whose count reaches 2, else general
FirstReaching(Count(_, _), text) ==
    LET reaching == {i \in 1..Len(DocumentCategories) :
                        Count(DocumentCategories[i], text) >= 2}
    IN  IF reaching = {} THEN GENERAL
        ELSE DocumentCategories[CHOOSE i \in reaching : \A j \in reaching : i <= j].category

Categorized == docCategory # "none"

C9_QueryCategorizerIsContentVariant ==
    queryCategory # "none" => queryCategory = _categorize_document(<<>>, catText)

(***************************************************************************)
(* Claims C11 to C13, C17 and C18: listing, ingesting and deleting (Spec). *)
(***************************************************************************)
Listed == last.op = "documents" /\ last.ok

\* the stored chunks that carry both a filename and a document_id
Carrying(coll) ==
    {i \in 1..Len(coll) :
        coll[i].metadata.filename # <<>> /\ coll[i].metadata.document_id # <<>>}

ChunksOf(coll, document_id) ==
    {i \in Carrying(coll) : coll[i].metadata.document_id = document_id}

C12_DocumentMetadataConsistent ==
    \A i, j \in 1..Len(collection) :
        collection[i].metadata.document_id = collection[j].metadata.document_id =>
            /\ collection[i].metadata.filename = collection[j].metadata.filename
            /\ collection[i].metadata.file_size = collection[j].metadata.file_size
            /\ collection[i].metadata.category = collection[j].metadata.category

\* one filename uploaded twice with different content: a document of two
\* chunks next to a chunk of the same filename from another upload, of
\* another file size
C12_Witness ==
    \E i, j, k \in 1..Len(collection) :
        /\ i # j
        /\ collection[i].metadata.document_id = collection[j].metadata.document_id
        /\ collection[k].metadata.filename = collection[i].metadata.filename
        /\ collection[k].metadata.document_id # collection[i].metadata.document_id
        /\ collection[k].metadata.file_size # collection[i].metadata.file_size

\* the stored chunks that a document id matches: those whose identifier
\* derived from the filename is the id
Matching(coll, document_id) ==
    {i \in 1..Len(coll) : <<coll[i].metadata.filename>> = document_id}

Deleted == last.op = "delete" /\ last.ok

Uploaded == last.op = "upload" /\ last.ok

\* C17: after an ingest that returned document_id D and n > 0 chunks,
\* list_documents() has exactly one summary with id D, and its chunks field
\* is n.
C17_IngestIsListed ==
    (Uploaded /\ last.chunks_created > 0) =>
        LET docs == list_documents(collection)
            mine == {n \in 1..Len(docs) : docs[n].id = last.document_id}
        IN  /\ Cardinality(mine) = 1
            /\ \A n \in mine : docs[n].chunks = last.chunks_created

\* C18: delete_document(X) leaves every stored chunk whose document_id is
\* not X in the store, with its content and metadata.
C18_DeleteLeavesOtherDocuments ==
    [][(last'.op = "delete" /\ last'.ok) =>
          \A i \in 1..Len(collection) :
              collection[i].metadata.document_id # last'.document_id =>
                  \E j \in 1..Len(collection') : collection'[j] = collection[i]]_vars

(***************************************************************************)
(* Claim C16: the confidence of an answer (SpecQuery).                     *)
(***************************************************************************)
\* conf is num / den rounded to the nearest integer, either way at a half
RoundsTo(conf, num, den) ==
    /\ 2 * (conf * den - num) <= den
    /\ 2 * (num - conf * den) <= den

\* C16: for a non-empty result set the confidence is the mean relevance of
\* the first min(3, n) results, times 1.1 and capped at 1.0 when at least 2
\* of them have a relevance above 0.8, rounded to 2 decimal places; the
\* results after the third have no part in it.
C16_ConfidenceOfTopThree ==
    (Queried /\ last.search_ok /\ last.results # <<>>) =>
        LET m == IF Len(last.results) < 3 THEN Len(last.results) ELSE 3
            relevance == [i \in 1..m |-> last.results[i].relevance]
            sum == IF m = 1 THEN relevance[1]
                   ELSE IF m = 2 THEN relevance[1] + relevance[2]
                   ELSE relevance[1] + relevance[2] + relevance[3]
            high == {i \in 1..m : relevance[i] > 80}
            conf == last.response.confidence
        IN  IF Cardinality(high) >= 2
            THEN IF 11 * sum >= 1000 * m
                 THEN conf = 100
                 ELSE RoundsTo(conf, 11 * sum, 10 * m)
            ELSE RoundsTo(conf, sum, m)

\* an answer from four results, two of the first three above 0.8, the
\* boosted mean below 1.0 and the fourth result unlike the first
C16_Witness ==
    /\ Queried /\ last.search_ok
    /\ Len(last.results) >= 4
    /\ Cardinality({i \in 1..3 : last.results[i].relevance > 80}) >= 2
    /\ last.response.confidence < 100
    /\ last.results[4].relevance # last.results[1].relevance

(***************************************************************************)
(* Claim C15: chunk ids (SpecChunk).                                       *)
(***************************************************************************)
ChunkIds(call) == [i \in 1..Len(call.chunks) |-> call.chunks[i].chunk_id]

First100(content) == [n \in 1..(IF Len(content) < 100 THEN Len(content) ELSE 100) |-> content[n]]

\* C15: two chunkings of the same text under the same filename give the same
\* chunk ids in the same order; a chunk id is fixed by the filename, the
\* 0-based index of the chunk and the first 100 characters of its content,
\* whatever the processing time, the file path and the file size.
C15_ChunkIdsRepeatable ==
    \A a, b \in 1..Len(processed) :
        /\ (processed[a].filename = processed[b].filename
              /\ processed[a].text = processed[b].text) =>
                 ChunkIds(processed[a]) = ChunkIds(processed[b])
        /\ \A i \in 1..Len(processed[a].chunks), j \in 1..Len(processed[b].chunks) :
              LET x == processed[a].chunks[i]
                  y == processed[b].chunks[j]
              IN  (/\ x.metadata.filename = y.metadata.filename
                   /\ x.metadata.chunk_index = y.metadata.chunk_index
                   /\ First100(x.content) = First100(y.content)) =>
                      x.chunk_id = y.chunk_id

\* two files of one filename processed at two times from two paths, of two
\* sizes, whose first chunks differ after their first 100 characters and
\* have the same chunk id
C15_Witness ==
    \E a, b \in 1..Len(processed) :
        LET x == processed[a].chunks[1]
            y == processed[b].chunks[1]
        IN  /\ x.metadata.filename = y.metadata.filename
            /\ x.metadata.file_path # y.metadata.file_path
            /\ x.metadata.processed_date # y.metadata.processed_date
            /\ x.metadata.file_size # y.metadata.file_size
            /\ x.content # y.content
            /\ First100(x.content) = First100(y.content)
            /\ x.chunk_id = y.chunk_id

(***************************************************************************)
(* Claim C14: concurrent uploads (SpecConc).                               *)
(***************************************************************************)
\* the collection after the add_document calls of the two tasks, one after
\* the other
Serial(first, second) ==
    LET one == add_document(<<>>,
                   Processed[UPLOAD_DIRECTORY, tasks[first].filename, tasks[first].runs, 1],
                   tasks[first].filename, Len(FileText(tasks[first].runs)), 1,
                   tasks[first].ok)
        then == IF one.ok THEN 2 ELSE 1
        two == add_document(one.collection,
                   Processed[UPLOAD_DIRECTORY, tasks[second].filename, tasks[second].runs, then],
                   tasks[second].filename, Len(FileText(tasks[second].runs)), then,
                   tasks[second].ok)
    IN  two.collection

BothDone == \A t \in Tasks : tasks[t].pc = "done"

\* C14: when two uploads have run concurrently, the index is the one that
\* the two add_document calls leave when run one after the other, in one of
\* the two orders.
C14_ConcurrentUploadsSerialize ==
    BothDone => collection \in {Serial("A", "B"), Serial("B", "A")}

\* two stored uploads of two chunks each, under one filename: every chunk id
\* of one batch is a chunk id of the other
C14_Witness ==
    /\ BothDone
    /\ \A t \in Tasks : tasks[t].ok /\ Len(tasks[t].runs) >= 2
    /\ tasks["A"].filename = tasks["B"].filename
    /\ tasks["A"].runs = tasks["B"].runs
    /\ tasks["A"].document_id # tasks["B"].document_id

====
